---- MODULE Spec2Model ----
(***************************************************************************)
(* Model of src/main.go: the EVC-mode workflow of main / doThings /        *)
(* createClient.  One action per remote call or local step, in the order   *)
(* the code issues them.  Remote collaborators (the vSphere endpoint) are  *)
(* the environment: every remote call succeeds or fails                    *)
(* nondeterministically, and the server drives the submitted task to a     *)
(* terminal state.  `trace` records, in program order, every remote call   *)
(* and every line written to stdout / stderr.                              *)
(***************************************************************************)
EXTENDS Integers, Sequences, FiniteSets, TLC

\* ------------------------------------------------------------------ bounds
MaxTable == 2
MaxMasks == 2

\* ------------------------------------------------------------ input domains
\* a flag or environment variable is either absent/empty or set
StrVals == {"", "x"}
\* values of the -evcmode flag (the first one is the flag's default)
ModeNames == {"intel-sandybridge", "intel-haswell"}
\* keys the server may report in SupportedEVCMode
TableKeys == {"intel-sandybridge", "intel-westmere"}
\* types.HostFeatureMask values
MaskSet == { [key |-> "f1", featureName |-> "cpuid.AES", value |-> "1"],
             [key |-> "f2", featureName |-> "cpuid.AVX", value |-> "0"] }
\* fault reasons a failed task may carry
Reasons == {"R1", "R2"}

SeqsUpTo(S, n) == UNION { [1..k -> S] : k \in 0..n }

MaskLists == SeqsUpTo(MaskSet, MaxMasks)
ModeEntries == [key : TableKeys, masks : MaskLists]
Tables == SeqsUpTo(ModeEntries, MaxTable)

\* ----------------------------------------------------------------- values
Nil == <<>>
NoScope == <<>>
NoReq == [This |-> <<>>, Mask |-> <<>>, CompleteMasks |-> FALSE, built |-> FALSE]
NoTask == [state |-> "none", reason |-> ""]

NewClientMsg == "could not create new vim25 govmomi client, did you set GOVC_USERNAME, GOVC_PASSWORD, GOVC_URL?"
LoginMsg == "could not login via vim25 session manager, did you set GOVC_USERNAME, GOVC_PASSWORD, GOVC_URL?"
MaskErrMsg == "error finding EVC feature masks for"

Call(name, arg, ok) == [kind |-> "call", name |-> name, arg |-> arg, ok |-> ok]
Out(name, arg) == [kind |-> "out", name |-> name, arg |-> arg, ok |-> TRUE]

VARIABLES dc, cluster, vmName, evcMode, envUrl, envUser, envPass,
          pc, exit, err, trace,
          finderDc, vmRef, clusterRef, evcMgrRef,
          supported, masks, req, submitted, task, cancelFired

inputs == <<dc, cluster, vmName, evcMode, envUrl, envUser, envPass>>
refs == <<finderDc, vmRef, clusterRef, evcMgrRef>>
evc == <<supported, masks, req, submitted, task>>
vars == <<inputs, pc, exit, err, trace, refs, evc, cancelFired>>

\* ------------------------------------------------------------ pure helpers
\* main.go:28
FlagsMissingNoCluster(d, c, v) == d = "" \/ v = ""
FlagsMissing(d, c, v) == d = "" \/ c = "" \/ v = ""

\* main.go:33
EnvMissing(p, u, h) == p = "" \/ u = "" \/ h = ""

\* `if err != nil { return err }`
NextPcIgnoreErr(nxt, e) == nxt
NextPc(nxt, e) == IF e # Nil THEN "return" ELSE nxt

\* main.go:86-92: the range loop with break
RECURSIVE ScanFrom(_, _, _)
ScanFrom(T, n, i) ==
    IF i > Len(T) THEN <<>>
    ELSE IF T[i].key = n THEN T[i].masks
    ELSE ScanFrom(T, n, i + 1)

Scan(T, n) == ScanFrom(T, n, 1)

\* main.go:93
ScanFailedNever(m) == FALSE
ScanFailed(m) == Len(m) = 0

\* main.go:96-98: one Println per mask, in slice order
MaskLinesReversed(m) ==
    [i \in 1..Len(m) |->
        Out("mask", <<m[Len(m) + 1 - i].key, m[Len(m) + 1 - i].featureName, m[Len(m) + 1 - i].value>>)]
MaskLines(m) ==
    [i \in 1..Len(m) |-> Out("mask", <<m[i].key, m[i].featureName, m[i].value>>)]

\* main.go:100-105
BuildReqReversed(vm, m) ==
    [This |-> vm, Mask |-> [i \in 1..Len(m) |-> m[Len(m) + 1 - i]],
     CompleteMasks |-> TRUE, built |-> TRUE]
BuildReqPartial(vm, m) ==
    [This |-> vm, Mask |-> m, CompleteMasks |-> FALSE, built |-> TRUE]
BuildReq(vm, m) ==
    [This |-> vm, Mask |-> m, CompleteMasks |-> TRUE, built |-> TRUE]

\* main.go:115: t.Wait blocks until the task is terminal ...
WaitDone(t) == t.state \in {"success", "error"}

\* ... and returns the task's fault as the error, nil on success
WaitResultSwallow(t) == Nil
WaitResult(t) == IF t.state = "error" THEN <<t.reason>> ELSE Nil

\* -------------------------------------------------------------------- Init
Init ==
    /\ dc \in StrVals /\ cluster \in StrVals /\ vmName \in StrVals
    /\ evcMode \in ModeNames
    /\ envUrl \in StrVals /\ envUser \in StrVals /\ envPass \in StrVals
    /\ pc = "main"
    /\ exit = -1
    /\ err = Nil
    /\ trace = <<>>
    /\ finderDc = NoScope
    /\ vmRef = <<>>
    /\ clusterRef = <<>>
    /\ evcMgrRef = <<>>
    /\ supported = <<>>
    /\ masks = <<>>
    /\ req = NoReq
    /\ submitted = NoReq
    /\ task = NoTask
    /\ cancelFired = FALSE

\* ----------------------------------------------------------------- actions
\* main.go:28-31
MainFlagCheck ==
    /\ pc = "main"
    /\ IF FlagsMissing(dc, cluster, vmName)
       THEN /\ trace' = Append(trace, Out("flags_required", <<>>))
            /\ exit' = 1
            /\ pc' = "exited"
       ELSE /\ pc' = "envcheck"
            /\ UNCHANGED <<trace, exit>>
    /\ UNCHANGED <<inputs, err, refs, evc, cancelFired>>

\* main.go:33-36
MainEnvCheck ==
    /\ pc = "envcheck"
    /\ IF EnvMissing(envPass, envUser, envUrl)
       THEN /\ trace' = Append(trace, Out("env_required", <<>>))
            /\ exit' = 1
            /\ pc' = "exited"
       ELSE /\ pc' = "newClient"
            /\ UNCHANGED <<trace, exit>>
    /\ UNCHANGED <<inputs, err, refs, evc, cancelFired>>

\* main.go:126-130
NewClient ==
    /\ pc = "newClient"
    /\ \E ok \in BOOLEAN :
         LET e == IF ok THEN Nil ELSE <<NewClientMsg, "E_NewClient">> IN
         /\ trace' = Append(trace, Call("NewClient", <<envUrl>>, ok))
         /\ err' = e
         /\ pc' = NextPc("login", e)
    /\ UNCHANGED <<inputs, exit, refs, evc, cancelFired>>

\* main.go:131-135
Login ==
    /\ pc = "login"
    /\ \E ok \in BOOLEAN :
         LET e == IF ok THEN Nil ELSE <<LoginMsg, "E_Login">> IN
         /\ trace' = Append(trace, Call("Login", <<envUser, envPass>>, ok))
         /\ err' = e
         /\ pc' = NextPc("datacenter", e)
    /\ UNCHANGED <<inputs, exit, refs, evc, cancelFired>>

\* main.go:52-57
FinderDatacenter ==
    /\ pc = "datacenter"
    /\ \E ok \in BOOLEAN :
         LET e == IF ok THEN Nil ELSE <<"E_Datacenter">> IN
         /\ trace' = Append(trace, Call("Datacenter", <<dc, finderDc>>, ok))
         /\ err' = e
         /\ finderDc' = IF ok THEN <<"Datacenter", dc>> ELSE finderDc
         /\ pc' = NextPc("vm", e)
    /\ UNCHANGED <<inputs, exit, vmRef, clusterRef, evcMgrRef, evc, cancelFired>>

\* main.go:59-62
FinderVirtualMachine ==
    /\ pc = "vm"
    /\ \E ok \in BOOLEAN :
         LET e == IF ok THEN Nil ELSE <<"E_VirtualMachine">> IN
         /\ trace' = Append(trace, Call("VirtualMachine", <<vmName, finderDc>>, ok))
         /\ err' = e
         /\ vmRef' = IF ok THEN <<"VirtualMachine", vmName>> ELSE vmRef
         /\ pc' = NextPc("cluster", e)
    /\ UNCHANGED <<inputs, exit, finderDc, clusterRef, evcMgrRef, evc, cancelFired>>

\* main.go:65: find.NewFinder(c.Client) is a fresh finder, no datacenter set
NewFinderScope == NoScope

\* main.go:65-68
FinderCluster ==
    /\ pc = "cluster"
    /\ \E ok \in BOOLEAN :
         LET e == IF ok THEN Nil ELSE <<"E_Cluster">> IN
         /\ trace' = Append(trace, Call("ClusterComputeResourceOrDefault", <<cluster, NewFinderScope>>, ok))
         /\ err' = e
         /\ clusterRef' = IF ok THEN <<"ClusterComputeResource", cluster>> ELSE clusterRef
         /\ pc' = NextPc("evcManager", e)
    /\ UNCHANGED <<inputs, exit, finderDc, vmRef, evcMgrRef, evc, cancelFired>>

\* main.go:71-76
EvcManager ==
    /\ pc = "evcManager"
    /\ \E ok \in BOOLEAN :
         LET e == IF ok THEN Nil ELSE <<"E_EvcManager">> IN
         /\ trace' = Append(trace, Call("EvcManager", <<clusterRef>>, ok))
         /\ err' = e
         /\ evcMgrRef' = IF ok THEN <<"ClusterEVCManager", cluster>> ELSE evcMgrRef
         /\ pc' = NextPc("retrieve", e)
    /\ UNCHANGED <<inputs, exit, finderDc, vmRef, clusterRef, evc, cancelFired>>

\* main.go:78-83
RetrieveOne ==
    /\ pc = "retrieve"
    /\ \/ \E T \in Tables :
            /\ trace' = Append(trace, Call("RetrieveOne", <<evcMgrRef>>, TRUE))
            /\ supported' = T
            /\ err' = Nil
            /\ pc' = NextPc("resolve", Nil)
       \/ /\ trace' = Append(trace, Call("RetrieveOne", <<evcMgrRef>>, FALSE))
          /\ err' = <<"E_RetrieveOne">>
          /\ pc' = NextPc("resolve", <<"E_RetrieveOne">>)
          /\ UNCHANGED supported
    /\ UNCHANGED <<inputs, exit, refs, masks, req, submitted, task, cancelFired>>

\* main.go:85-98
ResolveMasks ==
    /\ pc = "resolve"
    /\ LET m == Scan(supported, evcMode) IN
         /\ masks' = m
         /\ IF ScanFailed(m)
            THEN /\ err' = <<MaskErrMsg, evcMode>>
                 /\ pc' = "return"
                 /\ UNCHANGED trace
            ELSE /\ trace' = trace \o MaskLines(m)
                 /\ pc' = "build"
                 /\ UNCHANGED err
    /\ UNCHANGED <<inputs, exit, refs, supported, req, submitted, task, cancelFired>>

\* main.go:100-108
BuildRequest ==
    /\ pc = "build"
    /\ req' = BuildReq(vmRef, masks)
    /\ trace' = Append(trace, Out("applying", <<evcMode, vmName>>))
    /\ pc' = "apply"
    /\ UNCHANGED <<inputs, exit, err, refs, supported, masks, submitted, task, cancelFired>>

\* main.go:109-112
ApplySubmit ==
    /\ pc = "apply"
    /\ \E ok \in BOOLEAN :
         LET e == IF ok THEN Nil ELSE <<"E_ApplyRejected">> IN
         /\ trace' = Append(trace, Call("ApplyEvcModeVM_Task", <<req>>, ok))
         /\ err' = e
         /\ submitted' = IF ok THEN req ELSE submitted
         /\ task' = IF ok THEN [state |-> "running", reason |-> ""] ELSE task
         /\ pc' = NextPc("wait", e)
    /\ UNCHANGED <<inputs, exit, refs, supported, masks, req, cancelFired>>

\* the server drives the submitted task to a terminal state
TaskProgress ==
    /\ task.state = "running"
    /\ \/ task' = [state |-> "success", reason |-> ""]
       \/ \E r \in Reasons : task' = [state |-> "error", reason |-> r]
    /\ UNCHANGED <<inputs, pc, exit, err, trace, refs, supported, masks, req, submitted, cancelFired>>

\* main.go:38: ctx is context.Background(); an external cancellation signal
\* raised while t.Wait blocks is not connected to it
Cancel ==
    /\ pc = "wait"
    /\ task.state = "running"
    /\ ~cancelFired
    /\ cancelFired' = TRUE
    /\ UNCHANGED <<inputs, pc, exit, err, trace, refs, evc>>

\* main.go:114-115
TaskWait ==
    /\ pc = "wait"
    /\ WaitDone(task)
    /\ LET e == WaitResult(task) IN
         /\ trace' = Append(trace, Call("Wait", <<>>, e = Nil))
         /\ err' = e
         /\ pc' = "return"
    /\ UNCHANGED <<inputs, exit, refs, evc, cancelFired>>

\* main.go:38-43
MainReturn ==
    /\ pc = "return"
    /\ IF err # Nil
       THEN /\ trace' = Append(trace, Out("error", err))
            /\ exit' = 1
       ELSE /\ exit' = 0
            /\ UNCHANGED trace
    /\ pc' = "exited"
    /\ UNCHANGED <<inputs, err, refs, evc, cancelFired>>

Next ==
    \/ MainFlagCheck
    \/ MainEnvCheck
    \/ NewClient
    \/ Login
    \/ FinderDatacenter
    \/ FinderVirtualMachine
    \/ FinderCluster
    \/ EvcManager
    \/ RetrieveOne
    \/ ResolveMasks
    \/ BuildRequest
    \/ ApplySubmit
    \/ TaskProgress
    \/ Cancel
    \/ TaskWait
    \/ MainReturn

Spec == Init /\ [][Next]_vars

\* =================================================================
\* Properties
\* =================================================================
IsCall(e) == e.kind = "call"
IsOut(e) == e.kind = "out"
IsMaskLine(e) == e.kind = "out" /\ e.name = "mask"

Calls == SelectSeq(trace, IsCall)
CallNames == [i \in 1..Len(Calls) |-> Calls[i].name]
MaskOut == SelectSeq(trace, IsMaskLine)

Issued(name) == \E i \in 1..Len(trace) : IsCall(trace[i]) /\ trace[i].name = name
Succeeded(name) ==
    \E i \in 1..Len(trace) : IsCall(trace[i]) /\ trace[i].name = name /\ trace[i].ok
Printed(name) == \E i \in 1..Len(trace) : IsOut(trace[i]) /\ trace[i].name = name

Ended == pc \in {"return", "exited"}

\* the table-level meaning of "first entry whose key equals n"
MatchIdx(T, n) == { i \in 1..Len(T) : T[i].key = n }
HasMatch(T, n) == MatchIdx(T, n) # {}
FirstIdx(T, n) == CHOOSE i \in MatchIdx(T, n) : \A j \in MatchIdx(T, n) : i <= j
FirstMatchMasks(T, n) == T[FirstIdx(T, n)].masks

\* the table has been fetched and the scan of main.go:86-95 has run
ResolveAttempted == Succeeded("RetrieveOne") /\ pc # "resolve"
ResolveFailed == ResolveAttempted /\ err = <<MaskErrMsg, evcMode>>
ResolveSucceeded == ResolveAttempted /\ err # <<MaskErrMsg, evcMode>>

\* the fixed chain of remote calls
CallOrder == <<"NewClient", "Login", "Datacenter", "VirtualMachine",
               "ClusterComputeResourceOrDefault", "EvcManager", "RetrieveOne",
               "ApplyEvcModeVM_Task", "Wait">>

\* -----------------------------------------------------------------
\* C1: resolution succeeds with the mask list of the FIRST entry whose key
\* equals the requested name whenever some entry has that key (also when
\* that entry's mask list is empty), and fails with the unsupported-baseline
\* error exactly when no entry has that key.
C1_ExactFirstMatch ==
    ResolveAttempted =>
        /\ HasMatch(supported, evcMode) =>
             /\ ~ResolveFailed
             /\ masks = FirstMatchMasks(supported, evcMode)
        /\ ~HasMatch(supported, evcMode) => ResolveFailed

\* -----------------------------------------------------------------
\* C2: the mask list of a built or submitted ApplyRequest is, element for
\* element and in the same order, the mask list of the table entry that
\* resolution selected (the first entry whose key equals the requested
\* name).
C2_OrderPreserved ==
    /\ req.built =>
         /\ HasMatch(supported, evcMode)
         /\ req.Mask = FirstMatchMasks(supported, evcMode)
    /\ Issued("ApplyEvcModeVM_Task") =>
         /\ req.built
         /\ trace[Len(trace)].name = "ApplyEvcModeVM_Task" => trace[Len(trace)].arg = <<req>>
    /\ submitted.built =>
         /\ submitted.Mask = FirstMatchMasks(supported, evcMode)
         /\ Len(submitted.Mask) = Len(FirstMatchMasks(supported, evcMode))

C2_Witness ==
    /\ submitted.built
    /\ Len(submitted.Mask) >= 2
    /\ submitted.Mask[1] # submitted.Mask[2]
    /\ FirstIdx(supported, evcMode) = 2

\* -----------------------------------------------------------------
\* C3: every ApplyRequest that has been constructed or submitted has its
\* CompleteMasks flag set to true.
C3_CompleteMasks ==
    /\ req.built => req.CompleteMasks = TRUE
    /\ submitted.built => submitted.CompleteMasks = TRUE
    /\ \A i \in 1..Len(trace) :
         (IsCall(trace[i]) /\ trace[i].name = "ApplyEvcModeVM_Task")
            => trace[i].arg[1].CompleteMasks = TRUE

C3_Witness == submitted.built /\ task.state = "success" /\ pc = "exited"

\* -----------------------------------------------------------------
\* C4: when one of the three flags or the three environment variables is
\* absent or empty, the run ends in failure and no remote call is issued.
AnyConfigMissing ==
    \/ dc = "" \/ cluster = "" \/ vmName = ""
    \/ envUrl = "" \/ envUser = "" \/ envPass = ""

C4_FailFast ==
    AnyConfigMissing =>
        /\ Len(Calls) = 0
        /\ pc \in {"main", "envcheck", "exited"}
        /\ pc = "exited" => exit = 1

C4_Witness ==
    /\ dc # "" /\ cluster # "" /\ vmName # ""
    /\ envUrl = "" /\ envUser # "" /\ envPass # ""
    /\ pc = "exited" /\ exit = 1 /\ Len(Calls) = 0

\* -----------------------------------------------------------------
\* C5: after a handle has been returned, the run reports success iff the
\* task reached terminal success; a terminal failure with reason R ends
\* the run in failure with error R unmodified; nothing is reported before
\* the task is terminal.
C5_TerminalPropagation ==
    /\ exit = 0 => (Succeeded("ApplyEvcModeVM_Task") /\ task.state = "success")
    /\ Succeeded("ApplyEvcModeVM_Task") =>
         /\ Ended => task.state \in {"success", "error"}
         /\ (Ended /\ task.state = "success") => err = Nil
         /\ (pc = "exited" /\ task.state = "success") => exit = 0
         /\ (Ended /\ task.state = "error") => err = <<task.reason>>
         /\ (pc = "exited" /\ task.state = "error") =>
               /\ exit = 1
               /\ trace[Len(trace)] = Out("error", <<task.reason>>)

C5_Witness ==
    /\ pc = "exited" /\ exit = 1
    /\ task.state = "error" /\ task.reason = "R2"

\* -----------------------------------------------------------------
\* C6: remote calls are issued in the fixed order, each at most once; a
\* failed call (or a failed baseline lookup) is the last thing the chain
\* does and the run ends in failure; the apply submission comes only after
\* the session, the three lookups and the mask resolution succeeded.
C6_StrictOrder ==
    /\ Len(CallNames) <= Len(CallOrder)
    /\ \A i \in 1..Len(CallNames) : CallNames[i] = CallOrder[i]
    /\ \A i \in 1..Len(Calls) : ~Calls[i].ok => i = Len(Calls)
    /\ (\E i \in 1..Len(Calls) : ~Calls[i].ok) =>
         /\ Ended
         /\ err # Nil
         /\ pc = "exited" => exit = 1
    /\ ResolveFailed =>
         /\ Ended
         /\ ~Issued("ApplyEvcModeVM_Task") /\ ~Issued("Wait")
         /\ pc = "exited" => exit = 1
    /\ Issued("ApplyEvcModeVM_Task") =>
         /\ \A i \in 1..7 : Calls[i].ok
         /\ ResolveSucceeded
         /\ masks = Scan(supported, evcMode) /\ Len(masks) > 0

C6_Witness ==
    /\ pc = "exited" /\ exit = 1
    /\ Len(Calls) = 4
    /\ ~Calls[4].ok

\* -----------------------------------------------------------------
\* C7: after a successful resolution exactly one line per resolved mask is
\* printed, in list order, carrying (key, featureName, value); all of them
\* precede the status line, which precedes the apply submission; the run
\* ends with a success indication or with the error text; a failed
\* resolution prints no mask line.
FirstPos(name) == CHOOSE i \in 1..Len(trace) :
    trace[i].name = name /\ \A j \in 1..Len(trace) : trace[j].name = name => i <= j

C7_OutputSequence ==
    /\ ResolveSucceeded =>
         /\ Len(MaskOut) = Len(masks)
         /\ \A i \in 1..Len(masks) :
              MaskOut[i].arg = <<masks[i].key, masks[i].featureName, masks[i].value>>
    /\ ~ResolveSucceeded => Len(MaskOut) = 0
    /\ Printed("applying") =>
         /\ ResolveSucceeded
         /\ \A i \in 1..Len(trace) : IsMaskLine(trace[i]) => i < FirstPos("applying")
         /\ Cardinality({ i \in 1..Len(trace) : trace[i].name = "applying" }) = 1
    /\ Issued("ApplyEvcModeVM_Task") =>
         /\ Printed("applying")
         /\ FirstPos("applying") < FirstPos("ApplyEvcModeVM_Task")
    /\ (pc = "exited" /\ Len(Calls) > 0) =>
         \/ exit = 0 /\ err = Nil /\ ~Printed("error")
         \/ exit = 1 /\ err # Nil /\ trace[Len(trace)] = Out("error", err)

C7_Witness ==
    /\ pc = "exited" /\ exit = 0
    /\ Len(MaskOut) = 2
    /\ MaskOut[1].arg = <<"f2", "cpuid.AVX", "0">>
    /\ MaskOut[2].arg = <<"f1", "cpuid.AES", "1">>

\* -----------------------------------------------------------------
\* C8: a cancellation signal that fires while the workflow awaits the
\* submitted task aborts the wait: the run ends in a Cancelled failure with
\* a warning that the server-side state is unverified, and the wait never
\* runs on to the task's own outcome.
C8_CancelAbortsWait ==
    (cancelFired /\ Ended) =>
        /\ err = <<"Cancelled">>
        /\ Issued("Wait") => ~Calls[Len(Calls)].ok
        /\ pc = "exited" => (exit = 1 /\ Printed("cancel_warning"))

\* -----------------------------------------------------------------
\* C9: every VM or cluster lookup is issued through a finder whose scope is
\* the datacenter resolved from the datacenter name.
C9_DatacenterScoped ==
    \A i \in 1..Len(trace) :
        (IsCall(trace[i]) /\ trace[i].name \in {"VirtualMachine", "ClusterComputeResourceOrDefault"})
            => trace[i].arg[2] = <<"Datacenter", dc>>

\* -----------------------------------------------------------------
\* C10: an apply request is never submitted with an empty mask list; an
\* empty scan result (no match, empty table, or a matching entry with no
\* masks) fails the run with the mask-lookup error before the request is
\* built, with no status line and no apply or wait call.
C10_NoEmptySubmit ==
    /\ \A i \in 1..Len(trace) :
         (IsCall(trace[i]) /\ trace[i].name = "ApplyEvcModeVM_Task")
            => Len(trace[i].arg[1].Mask) >= 1
    /\ submitted.built => Len(submitted.Mask) >= 1
    /\ (ResolveAttempted /\ Len(Scan(supported, evcMode)) = 0) =>
         /\ ResolveFailed
         /\ Ended
         /\ ~req.built
         /\ ~Printed("applying")
         /\ ~Issued("ApplyEvcModeVM_Task") /\ ~Issued("Wait")
         /\ pc = "exited" => (exit = 1 /\ trace[Len(trace)] = Out("error", <<MaskErrMsg, evcMode>>))

C10_Witness ==
    /\ pc = "exited" /\ exit = 1
    /\ HasMatch(supported, evcMode)
    /\ Len(FirstMatchMasks(supported, evcMode)) = 0
    /\ ResolveFailed

====
